---- MODULE Spec2Model ----
(***************************************************************************)
(* Model of the three-phase pipeline of src/async-await/src/main.py        *)
(* (scrape_all_pages -> download_all_pdfs -> process_all_pdfs -> final     *)
(* write of all_decisions.json) together with the helpers of               *)
(* src/async-await/src/scraper.py it calls.                                *)
(*                                                                         *)
(* Persisted state is the four things the program keeps on disk:           *)
(* progress.txt, processed_pdfs.txt, all_decisions.json and the            *)
(* temp_<source_id>.pdf files.  The environment is the listing (what each  *)
(* listing page holds and how many PDF URLs each item resolves to), the    *)
(* outcome of every HTTP request, the answer of the extraction service,    *)
(* and a process kill between any two steps of a run.                      *)
(***************************************************************************)
EXTENDS Integers, Sequences, FiniteSets, TLC

\* ------------------------------------------------------------------ bounds
\* Listing pages 1..MaxPage may hold items; every other page number is empty.
MaxPage == 2
\* Items (grid cards) per listing page.
MaxItems == 2
\* PDF URLs one item's detail page resolves to.
MaxUrls == 2
\* Elements of the array the extraction service returns for one document.
MaxRecs == 1
\* Runs of main() in one behaviour.
MaxRuns == 3

\* ------------------------------------------------------------ conversions
Digit == <<"0", "1", "2", "3", "4", "5", "6", "7", "8", "9">>

RECURSIVE ToStr(_)
\* str(n) of Python for an int n (f-string formatting of page_num, idx+1, i).
ToStr(n) ==
    IF n < 0 THEN "-" \o ToStr(0 - n)
    ELSE IF n < 10 THEN Digit[n + 1]
    ELSE ToStr(n \div 10) \o Digit[(n % 10) + 1]

\* A walk that numbers the items of a page from 0 (enumerate's idx used as it is).
SourceIdZeroBased(page_num, idx1) ==
    "page" \o ToStr(page_num) \o "_item" \o ToStr(idx1 - 1)

\* f"page{page_num}_item{idx+1}", idx1 being idx+1.
SourceId(page_num, idx1) == "page" \o ToStr(page_num) \o "_item" \o ToStr(idx1)

\* f"temp_{source_id}.pdf"
PdfFilename(source_id) == "temp_" \o source_id \o ".pdf"

\* The serial number counted from 0 (enumerate without start=1).
SerialNumberZeroBased(source_id, i) == source_id \o "_" \o ToStr(i - 1)

\* f"{source_id}_{i}"
SerialNumber(source_id, i) == source_id \o "_" \o ToStr(i)

\* The value download_pdf returns when it gives up.
None == "None"

Range(s) == {s[i] : i \in 1..Len(s)}

RECURSIVE Flatten(_)
Flatten(ss) == IF ss = <<>> THEN <<>> ELSE Head(ss) \o Flatten(Tail(ss))

\* ------------------------------------------------------------------- state
VARIABLES
    \* the environment
    listing,          \* page -> sequence of items, an item being its number of PDF URLs
    \* persisted state
    progressFile,     \* progress.txt: <<>> when absent, <<n>> when it holds n
    processedFile,    \* processed_pdfs.txt: the set of its lines
    outputFile,       \* all_decisions.json: the array (<<>> when absent)
    disk,             \* names of the temp_*.pdf files present
    \* one run of main()
    pc,               \* "idle" | "scrape" | "download" | "process" | "done" | "aborted" | "crashed"
    start_page,
    processed_pdfs,
    page_num,
    all_pdf_data,
    downloaded_files,
    file_idx,         \* position of process_all_pdfs' loop in downloaded_files
    all_decisions,
    \* history of the current run (observations, read by no action's guard)
    runs,             \* runs started so far
    requested,        \* listing pages requested by this run, in order
    lastFetch,        \* outcome of this run's last listing request
    dlIds,            \* source ids whose documents this run issued a download for
    exLabels,         \* source ids this run passed to process_pdf
    failedIds,        \* source ids whose download or extraction failed in this run
    failed,           \* some request, download or extraction of this run failed
    prevOutcome,      \* how the previous run ended
    prevFailed,       \* failed, of the previous run
    outAtStart,       \* all_decisions.json when this run started
    \* one call of download_pdf (specification SpecFetch)
    dl,
    \* one call of process_pdf (specification SpecExtract)
    ex,
    \* calls of clean_extracted_data (specification SpecClean)
    cl,
    \* one call of get_pdf_urls_from_content on a detail page (specification SpecResolve)
    rs,
    \* calls of the four checkpoint helpers (specification SpecStore)
    ck,
    \* one start of the program (specification SpecLaunch)
    ln,
    \* the merge of one document's records (specification SpecMerge)
    mg,
    \* the gather of download_all_pdfs (specification SpecGather)
    ga,
    \* one write of a persisted file (specification SpecFlush)
    fl

env == <<listing>>
persisted == <<progressFile, processedFile, outputFile, disk>>
local == <<start_page, processed_pdfs, page_num, all_pdf_data, downloaded_files,
           file_idx, all_decisions>>
hist == <<runs, requested, lastFetch, dlIds, exLabels, failedIds, failed,
          prevOutcome, prevFailed, outAtStart>>
pipeline == <<env, persisted, pc, local, hist>>
\* The variables of the function-level specifications.
aux1 == <<dl, ex, cl>>
aux2 == <<rs, ck, ln, mg, ga, fl>>
aux == <<aux1, aux2>>
vars == <<pipeline, aux>>

\* All listings within the bounds.
Pages == 1..MaxPage
ItemSeqs == UNION {[1..n -> 0..MaxUrls] : n \in 0..MaxItems}
Listings == [Pages -> ItemSeqs]

\* What listing page p holds.
ListingAt(p) == IF p \in Pages THEN listing[p] ELSE <<>>

Running == {"scrape", "download", "process"}
Stopped == {"idle", "done", "aborted", "crashed"}

\* No call of download_pdf, process_pdf or clean_extracted_data is observed.
Aux1Idle ==
    /\ dl = [pc |-> "off"]
    /\ ex = [pc |-> "off"]
    /\ cl = [pc |-> "off"]

Aux2Idle ==
    /\ rs = [pc |-> "off"]
    /\ ck = [pc |-> "off"]
    /\ ln = [pc |-> "off"]
    /\ mg = [pc |-> "off"]
    /\ ga = [pc |-> "off"]
    /\ fl = [pc |-> "off"]

AuxIdle == Aux1Idle /\ Aux2Idle

\* Nothing is on disk and main() has not run yet.
PipelineInit ==
    /\ progressFile = <<>>
    /\ processedFile = {}
    /\ outputFile = <<>>
    /\ disk = {}
    /\ pc = "idle"
    /\ start_page = 1
    /\ processed_pdfs = {}
    /\ page_num = 1
    /\ all_pdf_data = <<>>
    /\ downloaded_files = <<>>
    /\ file_idx = 1
    /\ all_decisions = <<>>
    /\ runs = 0
    /\ requested = <<>>
    /\ lastFetch = "none"
    /\ dlIds = {}
    /\ exLabels = {}
    /\ failedIds = {}
    /\ failed = FALSE
    /\ prevOutcome = "none"
    /\ prevFailed = FALSE
    /\ outAtStart = <<>>

Init ==
    /\ listing \in Listings
    /\ PipelineInit
    /\ AuxIdle

\* ------------------------------------------------------ checkpoint helpers
load_progress == IF progressFile # <<>> THEN progressFile[1] ELSE 1

save_progress(n) == <<n>>

load_processed_pdfs == processedFile

save_processed_pdf(source_id) == processedFile \cup {source_id}

\* ------------------------------------------------------------------ main()
\* main, up to the call of scrape_all_pages.
StartRun ==
    /\ pc \in Stopped
    /\ UNCHANGED aux
    /\ runs < MaxRuns
    /\ pc' = "scrape"
    /\ start_page' = load_progress
    /\ processed_pdfs' = load_processed_pdfs
    /\ page_num' = load_progress
    /\ all_pdf_data' = <<>>
    /\ downloaded_files' = <<>>
    /\ file_idx' = 1
    /\ all_decisions' = <<>>
    /\ runs' = runs + 1
    /\ requested' = <<>>
    /\ lastFetch' = "none"
    /\ dlIds' = {}
    /\ exLabels' = {}
    /\ failedIds' = {}
    /\ failed' = FALSE
    /\ prevOutcome' = IF runs = 0 THEN "none" ELSE pc
    /\ prevFailed' = failed
    /\ outAtStart' = outputFile
    /\ UNCHANGED <<env, persisted>>

\* The run's own variables once main() has ended by an exception or a kill.
Forget ==
    /\ start_page' = 1
    /\ processed_pdfs' = {}
    /\ page_num' = 1
    /\ all_pdf_data' = <<>>
    /\ downloaded_files' = <<>>
    /\ file_idx' = 1
    /\ all_decisions' = <<>>
    /\ requested' = <<>>
    /\ lastFetch' = "none"
    /\ dlIds' = {}
    /\ exLabels' = {}
    /\ failedIds' = {}

\* How main() ends when an exception leaves it: nothing more is written.
Abort ==
    /\ pc' = "aborted"
    /\ failed' = TRUE
    /\ Forget

\* ------------------------------------------------------- scrape_all_pages
\* get_content_urls_from_page: the cards of the page on a 200 response, [] on any
\* other status (st = "non200").  A transport error raises and is not modelled
\* here: the caller aborts.
get_content_urls_from_page(p, st) == IF st = "ok" THEN ListingAt(p) ELSE <<>>

\* get_pdf_urls_from_content for an item whose detail page offers n PDF URLs:
\* the URLs (named by their ordinal on the page) on a 200 response, [] otherwise.
get_pdf_urls_from_content(n, st) == IF st = "ok" THEN [k \in 1..n |-> k] ELSE <<>>

\* The entries one listing page adds to all_pdf_data: one per item, in order,
\* whose pdf_urls is not empty.
PageEntries(p, content_urls, det) ==
    Flatten([k \in 1..Len(content_urls) |->
        LET pdf_urls == get_pdf_urls_from_content(content_urls[k], det[k])
        IN  IF pdf_urls # <<>>
            THEN <<[source_id |-> SourceId(p, k), pdf_urls |-> pdf_urls]>>
            ELSE <<>>])

\* A walk that saves the cursor after every page.
ProgressSavedPerPage(file, n) == save_progress(n)

\* progress.txt after a page with items has been handled (lines 55-61): the
\* loop body holds no save_progress.
ProgressAfterPage(file, n) == file

\* One iteration of the while loop of scrape_all_pages; on the empty page the
\* loop is left and save_progress(page_num - 1) runs before the function returns.
ScrapePage ==
    /\ pc = "scrape"
    /\ UNCHANGED aux
    /\ \E st \in {"ok", "non200", "error"} :
        /\ runs' = runs
        /\ prevOutcome' = prevOutcome
        /\ prevFailed' = prevFailed
        /\ outAtStart' = outAtStart
        /\ IF st = "error"
           THEN /\ Abort
                /\ UNCHANGED <<env, persisted>>
           ELSE LET content_urls == get_content_urls_from_page(page_num, st)
                IN  IF content_urls = <<>>
                    THEN /\ progressFile' = save_progress(page_num - 1)
                         /\ pc' = "download"
                         /\ requested' = Append(requested, page_num)
                         /\ lastFetch' = st
                         /\ failed' = (failed \/ st # "ok")
                         /\ UNCHANGED <<env, processedFile, outputFile, disk, local,
                                        dlIds, exLabels, failedIds>>
                    ELSE \E det \in [1..Len(content_urls) -> {"ok", "non200", "error"}] :
                         IF \E k \in 1..Len(content_urls) : det[k] = "error"
                         THEN /\ Abort
                              /\ UNCHANGED <<env, persisted>>
                         ELSE /\ all_pdf_data' =
                                    all_pdf_data \o PageEntries(page_num, content_urls, det)
                              /\ page_num' = page_num + 1
                              /\ requested' = Append(requested, page_num)
                              /\ lastFetch' = st
                              /\ failed' = (failed \/ \E k \in 1..Len(content_urls) :
                                                          det[k] # "ok")
                              /\ progressFile' = ProgressAfterPage(progressFile, page_num)
                              /\ UNCHANGED <<env, processedFile, outputFile, disk, pc,
                                             start_page, processed_pdfs, downloaded_files,
                                             file_idx, all_decisions, dlIds, exLabels,
                                             failedIds>>

\* ------------------------------------------------------ download_all_pdfs
\* The download tasks in the order they are appended: for every entry whose
\* source_id is not in processed_pdfs, one task per URL, all of one entry
\* writing to the same temp_<source_id>.pdf.
Tasks(data, processed) ==
    Flatten([d \in 1..Len(data) |->
        IF data[d].source_id \in processed
        THEN <<>>
        ELSE [k \in 1..Len(data[d].pdf_urls) |->
                [source_id |-> data[d].source_id,
                 url |-> data[d].pdf_urls[k],
                 filename |-> PdfFilename(data[d].source_id)]]])

\* The source id download_all_pdfs attaches to the i-th result (1-based here,
\* all_pdf_data[i] with a 0-based i in the code).
ResultLabel(data, i) == data[i].source_id

\* download_all_pdfs: gather of every task, each ending with its filename
\* (ok[i]) or None, then the pairing of results with source ids.  A result
\* whose index has no entry in all_pdf_data raises IndexError.
DownloadAll ==
    /\ pc = "download"
    /\ UNCHANGED aux
    /\ LET tasks == Tasks(all_pdf_data, processed_pdfs)
       IN  \E ok \in [1..Len(tasks) -> BOOLEAN] :
            LET results == [i \in 1..Len(tasks) |->
                              IF ok[i] THEN tasks[i].filename ELSE None]
                written == {tasks[i].filename : i \in {j \in 1..Len(tasks) : ok[j]}}
                anyFail == \E i \in 1..Len(tasks) : ~ok[i]
            IN  /\ disk' = disk \cup written
                /\ UNCHANGED <<env, progressFile, processedFile, outputFile>>
                /\ UNCHANGED <<runs, prevOutcome, prevFailed, outAtStart>>
                /\ IF Len(tasks) > Len(all_pdf_data)
                   THEN Abort
                   ELSE /\ downloaded_files' =
                              [i \in 1..Len(tasks) |->
                                  [source_id |-> ResultLabel(all_pdf_data, i),
                                   filename |-> results[i]]]
                        /\ pc' = "process"
                        /\ dlIds' = {tasks[i].source_id : i \in 1..Len(tasks)}
                        /\ failedIds' = failedIds \cup
                              {tasks[i].source_id : i \in {j \in 1..Len(tasks) : ~ok[j]}}
                        /\ failed' = (failed \/ anyFail)
                        /\ UNCHANGED <<start_page, processed_pdfs, page_num, all_pdf_data,
                                       file_idx, all_decisions, requested, lastFetch,
                                       exLabels>>

\* ------------------------------------------------------- process_all_pdfs
\* process_pdf: the records built from the service's array of n elements, or []
\* once every attempt has failed.  The upload of every attempt raises when
\* pdf_path is None or names no file.  The field doc is not part of the JSON: it
\* records the file the record was extracted from.
process_pdf(pdf_path, source_id, svcOk, n) ==
    IF pdf_path \in disk /\ svcOk
    THEN [i \in 1..n |-> [source |-> source_id,
                          serial_number |-> SerialNumber(source_id, i),
                          doc |-> pdf_path]]
    ELSE <<>>

\* One iteration of the loop of process_all_pdfs: process_pdf, extend,
\* save_processed_pdf, os.remove.  os.remove raises for None (TypeError) and
\* for a missing file (FileNotFoundError), after the id has been saved.
\* process_pdf itself raises when files.delete raises in its finally block,
\* which takes an uploaded file (raises = TRUE, see ExAttempt): nothing is
\* saved then.
ProcessOne ==
    /\ pc = "process"
    /\ UNCHANGED aux
    /\ file_idx <= Len(downloaded_files)
    /\ \E svcOk \in BOOLEAN, n \in 0..MaxRecs, raises \in BOOLEAN :
        LET source_id == downloaded_files[file_idx].source_id
            filename == downloaded_files[file_idx].filename
            decisions == process_pdf(filename, source_id, svcOk, n)
        IN  /\ UNCHANGED <<env, progressFile, outputFile>>
            /\ UNCHANGED <<runs, prevOutcome, prevFailed, outAtStart>>
            /\ processedFile' = IF raises /\ filename \in disk
                                THEN processedFile
                                ELSE save_processed_pdf(source_id)
            /\ IF raises /\ filename \in disk
               THEN /\ disk' = disk
                    /\ Abort
               ELSE IF filename \in disk
               THEN /\ disk' = disk \ {filename}
                    /\ all_decisions' = all_decisions \o decisions
                    /\ file_idx' = file_idx + 1
                    /\ exLabels' = exLabels \cup {source_id}
                    /\ failedIds' = IF decisions = <<>>
                                    THEN failedIds \cup {source_id} ELSE failedIds
                    /\ failed' = (failed \/ decisions = <<>>)
                    /\ UNCHANGED <<pc, start_page, processed_pdfs, page_num, all_pdf_data,
                                   downloaded_files, requested, lastFetch, dlIds>>
               ELSE /\ disk' = disk
                    /\ Abort

\* A final write that keeps the new records only.
OverwrittenOutput(existing_data, decisions) == decisions

\* existing_data.extend(all_decisions)
MergedOutput(existing_data, decisions) == existing_data \o decisions

\* main, from the return of process_all_pdfs: the final write of
\* all_decisions.json (existing array, extended by all_decisions, rewritten).
WriteOutput ==
    /\ pc = "process"
    /\ UNCHANGED aux
    /\ file_idx > Len(downloaded_files)
    /\ outputFile' = IF all_decisions # <<>>
                     THEN MergedOutput(outputFile, all_decisions)
                     ELSE outputFile
    /\ pc' = "done"
    /\ UNCHANGED <<env, progressFile, processedFile, disk, local, hist>>

\* The process is killed between two steps of a run: what is on disk stays.
Crash ==
    /\ pc \in Running
    /\ UNCHANGED aux
    /\ pc' = "crashed"
    /\ Forget
    /\ UNCHANGED <<env, persisted, runs, failed, prevOutcome, prevFailed, outAtStart>>

Next ==
    \/ StartRun
    \/ ScrapePage
    \/ DownloadAll
    \/ ProcessOne
    \/ WriteOutput
    \/ Crash

Spec == Init /\ [][Next]_vars

\* ------------------------------------------------------------ properties
\* The walk of this run has ended and scrape_all_pages has returned.
WalkEnded == pc \in {"download", "process", "done"}

\* A run of main() is under way or has returned normally.
InRun == pc \in Running \cup {"done"}

\* The page at which a walk from page s ends when every request succeeds: the
\* first page from s on that holds no item.
EndPage(s) ==
    CHOOSE n \in s..(MaxPage + 1) :
        /\ ListingAt(n) = <<>>
        /\ \A p \in s..(n - 1) : ListingAt(p) # <<>>

\* C1: every source id in processed_pdfs.txt has its extracted records in
\* all_decisions.json already: no record of a saved id exists in memory only.
C1_MergeThenCheckpoint ==
    InRun =>
        \A i \in 1..Len(all_decisions) :
            all_decisions[i].source \in processedFile
                => all_decisions[i] \in Range(outputFile)

\* C2: the page cursor scrape_all_pages saves is at least the one load_progress
\* returned when the run started.
C2_CursorMonotonic ==
    WalkEnded => (progressFile # <<>> /\ progressFile[1] >= start_page)

\* C3: a run neither downloads for, nor passes to process_pdf, a source id that
\* was in the completed set when the run started.
C3_IdempotentResume ==
    InRun => processed_pdfs \cap (dlIds \cup exLabels) = {}

\* C4: the walk ends (and the cursor is saved) only on a listing page that was
\* fetched successfully; a failed listing request never ends it.
C4_FailedFetchNotEnd ==
    WalkEnded => lastFetch = "ok"

\* The source ids the listing's items are expected to get, written out:
\* IdTable[p][k] for the k-th item of page p.
IdTable ==
    << <<"page1_item1", "page1_item2", "page1_item3", "page1_item4">>,
       <<"page2_item1", "page2_item2", "page2_item3", "page2_item4">>,
       <<"page3_item1", "page3_item2", "page3_item3", "page3_item4">>,
       <<"page4_item1", "page4_item2", "page4_item3", "page4_item4">> >>

\* The ids of the items of page p, in page order: all of them (every = TRUE)
\* or those that resolve to at least one PDF URL (every = FALSE).
IdsOfPage(p, every) ==
    Flatten([k \in 1..Len(ListingAt(p)) |->
                IF every \/ ListingAt(p)[k] > 0 THEN <<IdTable[p][k]>> ELSE <<>>])

\* The same for the pages s..n-1, in increasing page order.
IdsOfPages(s, n, every) ==
    Flatten([j \in 1..(n - s) |-> IdsOfPage(s + j - 1, every)])

DiscoveredIds == [i \in 1..Len(all_pdf_data) |-> all_pdf_data[i].source_id]

\* The walk of this run has just ended and every request of it succeeded.
CleanWalkEnded == pc = "download" /\ ~failed

C6_SecondRunAddsNothing ==
    (pc = "done" /\ prevOutcome = "done" /\ ~failed /\ ~prevFailed)
        => outputFile = outAtStart

\* C7: no two records of all_decisions.json have the same serial_number.
C7_UniqueSerials ==
    \A i, j \in 1..Len(outputFile) :
        i # j => outputFile[i].serial_number # outputFile[j].serial_number

\* The serial numbers held in a sequence of records.
Serials(recs) == {recs[i].serial_number : i \in 1..Len(recs)}

\* C8: the final write of a batch whose serial numbers are all in
\* all_decisions.json already leaves the file as it was.
C8_MergeIdempotent ==
    [][(/\ pc = "process"
        /\ pc' = "done"
        /\ all_decisions # <<>>
        /\ Serials(all_decisions) \subseteq Serials(outputFile))
            => outputFile' = outputFile]_vars

\* The items a walk from page 1 reaches that resolve to at least one PDF URL.
ResolvableIds == Range(IdsOfPages(1, EndPage(1), FALSE))

\* C9: after one killed run and one complete run without any failure, every
\* listing item with a resolvable document has a record in all_decisions.json
\* (under its own id, or extracted from its own file).
C9_CrashLosesOnlyInFlight ==
    (pc = "done" /\ runs = 2 /\ prevOutcome = "crashed" /\ ~failed /\ ~prevFailed)
        => \A id \in ResolvableIds :
              \E i \in 1..Len(outputFile) :
                  \/ outputFile[i].source = id
                  \/ outputFile[i].doc = PdfFilename(id)

\* C10: a source id whose download or extraction failed in this run is not
\* added to processed_pdfs.txt by this run.
C10_FailedNotCompleted ==
    InRun => (failedIds \cap processedFile) \subseteq processed_pdfs

\* C13: a document whose download permanently failed (filename None) does not
\* end the run: process_all_pdfs goes on after it (or the process is killed).
C13_FailedDownloadIsolated ==
    [][(/\ pc = "process"
        /\ file_idx <= Len(downloaded_files)
        /\ downloaded_files[file_idx].filename = None)
            => pc' \in {"process", "crashed"}]_vars

\* C21: every record of all_decisions.json carries as source the id of the
\* listing item whose document (temp_<id>.pdf) it was extracted from.
C21_SourceIsOwnItem ==
    \A i \in 1..Len(outputFile) :
        outputFile[i].doc = PdfFilename(outputFile[i].source)

IsPrefix(s, t) == Len(s) <= Len(t) /\ SubSeq(t, 1, Len(s)) = s

\* C26: when a run has completed, the array all_decisions.json held before the
\* run is a prefix of the array it holds now, and a run that extracted no
\* record has left the file as it was.
C26_OutputOnlyGrows ==
    pc = "done" =>
        /\ IsPrefix(outAtStart, outputFile)
        /\ (all_decisions = <<>> => outputFile = outAtStart)

\* A run completes with new records after an earlier run has written some.
C26_Witness ==
    /\ pc = "done"
    /\ outAtStart # <<>>
    /\ all_decisions # <<>>
    /\ outputFile = outAtStart \o all_decisions

\* C28: while a run walks the listing, every page it has requested has a number
\* above the page cursor persisted by an earlier run.
C28_StartsAfterCursor ==
    (pc = "scrape" /\ progressFile # <<>>) =>
        \A i \in 1..Len(requested) : requested[i] > progressFile[1]

\* C29: download_all_pdfs returns without an exception, and every entry it
\* returns has a filename (no entry stands for a document whose download
\* permanently failed).
C29_DownloadAllTotal ==
    [][pc = "download" =>
        /\ pc' \in {"process", "crashed"}
        /\ (pc' = "process" =>
              \A i \in 1..Len(downloaded_files') :
                  downloaded_files'[i].filename # None)]_vars

\* C33: progress.txt is written by one step of a run only, the end of the walk
\* (the request of the page that yields no item); no step that handles a page
\* with items, and no step of the Fetch and Extract phases, changes it.
C33_CursorWrittenAtWalkEnd ==
    [][/\ ~(pc = "scrape" /\ pc' = "download") => progressFile' = progressFile
       /\ (pc = "scrape" /\ pc' = "download") =>
             /\ requested' = Append(requested, page_num)
             /\ progressFile' = <<page_num - 1>>]_vars

\* Two pages with items have been walked, the cursor was written at the end
\* and the run is in its Extract phase.
C33_Witness ==
    /\ pc = "process"
    /\ requested = <<1, 2, 3>>
    /\ progressFile = <<2>>
    /\ Len(all_pdf_data) >= 2

\* C35: when process_all_pdfs returns or raises, none of the files this run
\* downloaded is left on disk.
C35_TempFilesReleased ==
    [][(pc = "process" /\ pc' \in {"done", "aborted"}) =>
          \A i \in 1..Len(downloaded_files) :
              downloaded_files[i].filename \notin disk']_vars

\* ================================================================ download_pdf
\* One call download_pdf(session, url, filename), attempt by attempt.  dl is
\*   filename  the destination passed by the caller
\*   pc        "get" (before an attempt), "sleep" (before asyncio.sleep), "returned"
\*   attempt   the loop variable (0-based)
\*   outcomes  what each attempt met, in order
\*   delays    the arguments of asyncio.sleep, in order
\*   file      the destination: "absent", "old" (left by an earlier run),
\*             "partial" (opened for writing, body not completely written), "complete"
\*   created   the destination was opened for writing by this call
\*   result    the value returned ("pending" before)

\* max_retries of download_pdf.
DlMaxRetries == 3

\* The cap of the backoff delay.
BackoffCap == 10

RECURSIVE Pow2(_)
Pow2(n) == IF n = 0 THEN 1 ELSE 2 * Pow2(n - 1)

Min(a, b) == IF a <= b THEN a ELSE b

\* A backoff that starts one step too far: 2, 4, ...
BackoffDelayOffByOne(attempt) == Min(Pow2(attempt + 1), BackoffCap)

\* delay = min(2 ** attempt, 10)
BackoffDelay(attempt) == Min(Pow2(attempt), BackoffCap)

\* What one attempt can meet:
\*   "ok"        status 200, body read and written
\*   "non200"    any other status
\*   "error"     session.get (or opening the file) raises
\*   "bodyerror" status 200, the file has been opened with 'wb', then reading the
\*               body or writing it raises
AttemptOutcomes == {"ok", "non200", "error", "bodyerror"}

\* The destinations download_all_pdfs passes to download_pdf.
DlFilenames == {PdfFilename(SourceId(p, k)) : p \in Pages, k \in 1..MaxItems}

InitFetch ==
    /\ listing = [p \in Pages |-> <<>>]
    /\ PipelineInit
    /\ ex = [pc |-> "off"]
    /\ cl = [pc |-> "off"]
    /\ Aux2Idle
    /\ \E f \in {"absent", "old"}, name \in DlFilenames :
         dl = [filename |-> name, pc |-> "get", attempt |-> 0, outcomes |-> <<>>, delays |-> <<>>,
               file |-> f, created |-> FALSE, result |-> "pending"]

\* One attempt: the body of the try statement and its except clause; the
\* return after the loop when it was the last attempt.
DlAttempt ==
    /\ dl.pc = "get"
    /\ UNCHANGED <<pipeline, ex, cl, aux2>>
    /\ \E out \in AttemptOutcomes :
        LET last == ~(dl.attempt < DlMaxRetries - 1)
        IN  dl' = [dl EXCEPT
                    !.outcomes = Append(@, out),
                    !.file = IF out = "ok" THEN "complete"
                             ELSE IF out = "bodyerror" THEN "partial"
                             ELSE @,
                    !.created = (@ \/ out \in {"ok", "bodyerror"}),
                    !.result = IF out = "ok" THEN dl.filename
                               ELSE IF last THEN None
                               ELSE @,
                    !.pc = IF out = "ok" \/ last THEN "returned" ELSE "sleep"]

\* if attempt < max_retries - 1: await asyncio.sleep(delay), then the next attempt.
DlBackoff ==
    /\ dl.pc = "sleep"
    /\ UNCHANGED <<pipeline, ex, cl, aux2>>
    /\ dl' = [dl EXCEPT !.delays = Append(@, BackoffDelay(dl.attempt)),
                        !.attempt = @ + 1,
                        !.pc = "get"]

NextFetch ==
    \/ DlAttempt
    \/ DlBackoff

SpecFetch == InitFetch /\ [][NextFetch]_vars

\* The attempt answered with status 200.
Is200(out) == out \in {"ok", "bodyerror"}

\* C11 (as amended): download_pdf makes at most 3 GET attempts; every attempt
\* that does not end with a 200 response completely read and written counts as
\* failed; it waits 1 after the first failed attempt and 2 after the second,
\* and does not wait after the last; it returns the filename at the first
\* attempt that succeeds, without further attempts, and None once 3 have failed.
C11_DownloadRetries ==
    dl.pc # "off" =>
        LET n == Len(dl.outcomes)
            waits == IF dl.pc = "get" THEN n ELSE n - 1
        IN  /\ n <= 3
            /\ \A i \in 1..(n - 1) : dl.outcomes[i] # "ok"
            /\ dl.delays = SubSeq(<<1, 2>>, 1, waits)
            /\ dl.pc = "returned" =>
                  /\ n >= 1
                  /\ dl.result \in {dl.filename, None}
                  /\ dl.result = dl.filename <=> dl.outcomes[n] = "ok"
                  /\ dl.result = None <=> (n = 3 /\ dl.outcomes[n] # "ok")

\* C11 (as stated): download_pdf returns the filename at the first 200 response,
\* without further attempts.
C11_ReturnsAtFirst200 ==
    (dl.pc = "returned" /\ \E i \in 1..Len(dl.outcomes) : Is200(dl.outcomes[i]))
        => /\ dl.result = dl.filename
           /\ \A i \in 1..(Len(dl.outcomes) - 1) : ~Is200(dl.outcomes[i])

\* Two 500 responses, then success: delays 1 and 2, the filename returned.
C11_Witness ==
    /\ dl.pc = "returned"
    /\ dl.filename = "temp_page1_item1.pdf"
    /\ dl.outcomes = <<"non200", "non200", "ok">>
    /\ dl.delays = <<1, 2>>
    /\ dl.result = dl.filename

\* C12: when download_pdf gives up, no file it opened for writing remains at
\* the destination.
C12_NoPartialFileLeft ==
    (dl.pc = "returned" /\ dl.result = None)
        => ~(dl.created /\ dl.file # "absent")

\* ================================================================= process_pdf
\* One call process_pdf(pdf_path, source_id), attempt by attempt.  ex is
\*   source_id      the id passed by the caller
\*   pc             "attempt", "sleep", "returned", "raised"
\*   attempt        the loop variable (0-based)
\*   uploaded_file  0 for None, else the handle held by the variable; a handle
\*                  is named by the number (1-based) of the attempt that uploaded it
\*   delays         the arguments of asyncio.sleep, in order
\*   deletes        the calls of files.delete, in order: the attempt (1-based)
\*                  that made the call and the handle it passed
\*   raw            the array the service returned to the attempt that succeeded
\*   result         the list returned
\*   how            "pending", "success", "gaveup", "raised"

\* max_retries of process_pdf.
ExMaxRetries == 3

\* Elements of the array the extraction service returns in one answer.
MaxArr == 2

\* Text values are sequences of characters.
Blank == " "

\* Some elements the service can return: both texts, the summary missing, and an
\* element carrying a source and a serial_number of its own.
RawItems ==
    { [ministry |-> <<"A">>, decision_summary |-> <<"A", Blank>>],
      [ministry |-> <<Blank>>],
      [source |-> "x", serial_number |-> "7", ministry |-> <<>>,
       decision_summary |-> <<"b">>] }

RawArrays == UNION {[1..n -> RawItems] : n \in 0..MaxArr}

\* item.get(key, "") for a text field.
Get(item, key) == IF key \in DOMAIN item THEN item[key] ELSE <<>>

\* processed_data as process_pdf builds it from raw_data.
BuildRecords(raw_data, source_id) ==
    [i \in 1..Len(raw_data) |->
        [source |-> source_id,
         serial_number |-> SerialNumber(source_id, i),
         ministry |-> Get(raw_data[i], "ministry"),
         decision_summary |-> Get(raw_data[i], "decision_summary")]]

ExSourceIds == {SourceId(p, k) : p \in Pages, k \in 1..MaxItems}

InitExtract ==
    /\ listing = [p \in Pages |-> <<>>]
    /\ PipelineInit
    /\ dl = [pc |-> "off"]
    /\ cl = [pc |-> "off"]
    /\ Aux2Idle
    /\ \E id \in ExSourceIds :
         ex = [source_id |-> id, pc |-> "attempt", attempt |-> 0, uploaded_file |-> 0,
               delays |-> <<>>, deletes |-> <<>>, raw |-> <<>>, result |-> <<>>,
               how |-> "pending"]

\* One attempt: try / except / finally.
\*   stage "upload_fail": genai.Client() or files.upload raises, uploaded_file
\*                        keeps the value an earlier attempt gave it
\*   stage "gen_fail":    the upload succeeds, then generate_content, json.loads
\*                        or the building of the records raises
\*   stage "ok":          the records are built and returned
\* The finally block calls files.delete when uploaded_file is set; delOk says
\* whether that call returns; when it raises, the exception leaves process_pdf.
ExAttempt ==
    /\ ex.pc = "attempt"
    /\ UNCHANGED <<pipeline, dl, cl, aux2>>
    /\ \E stage \in {"upload_fail", "gen_fail", "ok"}, delOk \in BOOLEAN,
          raw_data \in RawArrays :
        LET a == ex.attempt + 1
            held == IF stage = "upload_fail" THEN ex.uploaded_file ELSE a
            released == held # 0
            last == ~(ex.attempt < ExMaxRetries - 1)
        IN  /\ (stage # "ok" => raw_data = <<>>)
            /\ (~released => delOk)
            /\ ex' = [ex EXCEPT
                  !.uploaded_file = held,
                  !.deletes = IF released
                              THEN Append(@, [attempt |-> a, handle |-> held])
                              ELSE @,
                  !.raw = IF delOk /\ stage = "ok" THEN raw_data ELSE @,
                  !.result = IF delOk /\ stage = "ok"
                             THEN BuildRecords(raw_data, ex.source_id)
                             ELSE @,
                  !.how = IF ~delOk THEN "raised"
                          ELSE IF stage = "ok" THEN "success"
                          ELSE IF last THEN "gaveup"
                          ELSE @,
                  !.pc = IF ~delOk THEN "raised"
                         ELSE IF stage = "ok" \/ last THEN "returned"
                         ELSE "sleep"]

\* if attempt < max_retries - 1: await asyncio.sleep(delay), then the next attempt.
ExBackoff ==
    /\ ex.pc = "sleep"
    /\ UNCHANGED <<pipeline, dl, cl, aux2>>
    /\ ex' = [ex EXCEPT !.delays = Append(@, BackoffDelay(ex.attempt)),
                        !.attempt = @ + 1,
                        !.pc = "attempt"]

NextExtract ==
    \/ ExAttempt
    \/ ExBackoff

SpecExtract == InitExtract /\ [][NextExtract]_vars

\* C14: files.delete is called only by an attempt for the file that attempt
\* uploaded itself, and no file is deleted twice.
C14_DeleteOncePerAttempt ==
    ex.pc # "off" =>
        /\ \A i \in 1..Len(ex.deletes) : ex.deletes[i].handle = ex.deletes[i].attempt
        /\ \A i, j \in 1..Len(ex.deletes) :
              i # j => ex.deletes[i].handle # ex.deletes[j].handle

\* C15: process_pdf makes at most 3 attempts with waits 1 then 2, and never
\* raises: when every attempt has failed it returns [].
C15_ExtractNeverRaises ==
    ex.pc # "off" =>
        /\ ex.attempt + 1 <= 3
        /\ ex.delays = SubSeq(<<1, 2>>, 1, Len(ex.delays))
        /\ ex.pc # "raised"
        /\ ex.how = "gaveup" => ex.result = <<>>

SerialSuffix == <<"_1", "_2", "_3", "_4">>

\* C20: on success process_pdf returns one record per element of the service's
\* array, in its order, the i-th with source = source_id and serial_number =
\* source_id + "_" + i, whatever source or serial_number the element carries.
C20_RecordsFollowArray ==
    ex.how = "success" =>
        /\ Len(ex.result) = Len(ex.raw)
        /\ \A i \in 1..Len(ex.result) :
              /\ ex.result[i].source = ex.source_id
              /\ ex.result[i].serial_number = ex.source_id \o SerialSuffix[i]
              /\ ex.result[i].ministry = Get(ex.raw[i], "ministry")

\* Two elements returned for page1_item1.
C20_Witness ==
    /\ ex.how = "success"
    /\ ex.source_id = "page1_item1"
    /\ Len(ex.raw) = 2
    /\ ex.result[1].serial_number = "page1_item1_1"
    /\ ex.result[2].serial_number = "page1_item1_2"

\* ======================================================== clean_extracted_data
\* One call clean_extracted_data(data) and a second application.  cl is
\*   pc        "call", "cleaned", "again"
\*   data      the list as the caller passed it
\*   data_now  the same list after the calls: its items are changed in place
\*   out       cleaned_data returned by the first call
\*   kept      for each record of out, its position in data
\*   onResult  whether the second application is to out or to the list again
\*   second    cleaned_data returned by the second application

\* Characters of a text value.
MaxStrLen == 2

\* Records in one list.
MaxBatch == 2

Chars == {Blank, "A"}

Texts == UNION {[1..n -> Chars] : n \in 0..MaxStrLen}

required_fields == {"source", "serial_number", "ministry", "decision_summary"}

TextFields == {"ministry", "decision_summary"}

\* not item[field]
Falsy(field, v) == IF field \in TextFields THEN v = <<>> ELSE v = ""

\* [field for field in required_fields if field not in item or not item[field]]
missing_fields(item) ==
    {field \in required_fields : field \notin DOMAIN item \/ Falsy(field, item[field])}

RECURSIVE LStrip(_)
LStrip(s) == IF s # <<>> /\ Head(s) = Blank THEN LStrip(Tail(s)) ELSE s

RECURSIVE RStrip(_)
RStrip(s) ==
    IF s # <<>> /\ s[Len(s)] = Blank THEN RStrip(SubSeq(s, 1, Len(s) - 1)) ELSE s

\* str.strip()
Strip(s) == RStrip(LStrip(s))

\* str.lower()
Lower(s) == [i \in 1..Len(s) |-> IF s[i] = "A" THEN "a" ELSE s[i]]

\* The ministry left as stripped, not lower-cased.
StripOnly(s) == Strip(s)

\* item['ministry'].strip().lower()
NormMinistry(s) == Lower(Strip(s))

\* item['decision_summary'].strip()
NormSummary(s) == Strip(s)

\* No serial number counts as seen.
NeverSeen(serial_number, seen_serials) == FALSE

\* item['serial_number'] in seen_serials
IsDuplicate(serial_number, seen_serials) == serial_number \in seen_serials

\* The for loop from item i on.
RECURSIVE CleanFrom(_, _, _, _, _)
CleanFrom(data, i, cleaned_data, kept, seen_serials) ==
    IF i > Len(data)
    THEN [cleaned_data |-> cleaned_data, kept |-> kept, data |-> data]
    ELSE IF missing_fields(data[i]) # {}
    THEN CleanFrom(data, i + 1, cleaned_data, kept, seen_serials)
    ELSE LET item == [data[i] EXCEPT !.ministry = NormMinistry(@),
                                     !.decision_summary = NormSummary(@)]
             changed == [data EXCEPT ![i] = item]
         IN  IF IsDuplicate(item.serial_number, seen_serials)
             THEN CleanFrom(changed, i + 1, cleaned_data, kept, seen_serials)
             ELSE CleanFrom(changed, i + 1, Append(cleaned_data, item),
                            Append(kept, i), seen_serials \union {item.serial_number})

clean_extracted_data(data) ==
    IF data = <<>>
    THEN [cleaned_data |-> <<>>, kept |-> <<>>, data |-> data]
    ELSE CleanFrom(data, 1, <<>>, <<>>, {})

Without(item, key) == [f \in DOMAIN item \ {key} |-> item[f]]

ClFullItems ==
    [source : {"", SourceId(1, 1)},
     serial_number : {"", SerialNumber(SourceId(1, 1), 1), SerialNumber(SourceId(1, 1), 2)},
     ministry : Texts,
     decision_summary : Texts]

\* Records with every key, and records with one key missing.
ClItems == ClFullItems \union {Without(item, key) : item \in ClFullItems, key \in required_fields}

ClBatches == UNION {[1..n -> ClItems] : n \in 0..MaxBatch}

InitClean ==
    /\ listing = [p \in Pages |-> <<>>]
    /\ PipelineInit
    /\ dl = [pc |-> "off"]
    /\ ex = [pc |-> "off"]
    /\ Aux2Idle
    /\ \E data \in ClBatches :
         cl = [pc |-> "call", data |-> data, data_now |-> data, out |-> <<>>,
               kept |-> <<>>, onResult |-> FALSE, second |-> <<>>]

\* cleaned = clean_extracted_data(data)
CleanCall ==
    /\ cl.pc = "call"
    /\ UNCHANGED <<pipeline, dl, ex, aux2>>
    /\ LET r == clean_extracted_data(cl.data)
       IN  cl' = [cl EXCEPT !.pc = "cleaned", !.out = r.cleaned_data,
                            !.kept = r.kept, !.data_now = r.data]

\* clean_extracted_data(cleaned) or clean_extracted_data(data) once more.
CleanAgain ==
    /\ cl.pc = "cleaned"
    /\ UNCHANGED <<pipeline, dl, ex, aux2>>
    /\ \E onResult \in BOOLEAN :
         LET r == clean_extracted_data(IF onResult THEN cl.out ELSE cl.data_now)
         IN  cl' = [cl EXCEPT !.pc = "again", !.onResult = onResult,
                              !.second = r.cleaned_data,
                              !.data_now = IF onResult THEN @ ELSE r.data]

NextClean ==
    \/ CleanCall
    \/ CleanAgain

SpecClean == InitClean /\ [][NextClean]_vars

\* C16: a second application of clean_extracted_data, to its own result or to
\* the same list again, returns the same list as the first.
C16_CleanIdempotent ==
    cl.pc = "again" => cl.second = cl.out

HasText(s) == \E k \in 1..Len(s) : s[k] # Blank

\* A record with the four fields present, source and serial_number not empty,
\* ministry and decision_summary not empty once trimmed.
Valid(item) ==
    /\ required_fields \subseteq DOMAIN item
    /\ item.source # ""
    /\ item.serial_number # ""
    /\ HasText(item.ministry)
    /\ HasText(item.decision_summary)

\* C17: every record of the output has the four required fields present and not
\* empty, and every record of the input with a required field missing or empty,
\* as given or after normalisation, is dropped.
C17_OutputFieldsNonEmpty ==
    cl.pc \in {"cleaned", "again"} =>
        /\ \A j \in 1..Len(cl.out) :
              /\ required_fields \subseteq DOMAIN cl.out[j]
              /\ cl.out[j].source # ""
              /\ cl.out[j].serial_number # ""
              /\ cl.out[j].ministry # <<>>
              /\ cl.out[j].decision_summary # <<>>
        /\ \A j \in 1..Len(cl.kept) : Valid(cl.data[cl.kept[j]])

\* A record that passes the validation step: the four fields present and not
\* empty as given.
Accepted(item) ==
    /\ required_fields \subseteq DOMAIN item
    /\ item.source # ""
    /\ item.serial_number # ""
    /\ item.ministry # <<>>
    /\ item.decision_summary # <<>>

\* C18: the output has pairwise distinct serial numbers, its records come from
\* input positions in increasing order, and for each serial number carried by a
\* record that passes validation, the record kept is the first such record.
C18_DistinctOrderedFirst ==
    cl.pc \in {"cleaned", "again"} =>
        /\ Len(cl.kept) = Len(cl.out)
        /\ \A j, k \in 1..Len(cl.out) :
              j # k => cl.out[j].serial_number # cl.out[k].serial_number
        /\ \A j, k \in 1..Len(cl.kept) : j < k => cl.kept[j] < cl.kept[k]
        /\ \A j \in 1..Len(cl.kept) :
              /\ cl.kept[j] \in 1..Len(cl.data)
              /\ Accepted(cl.data[cl.kept[j]])
              /\ cl.out[j].serial_number = cl.data[cl.kept[j]].serial_number
              /\ \A i \in 1..(cl.kept[j] - 1) :
                    Accepted(cl.data[i]) =>
                        cl.data[i].serial_number # cl.out[j].serial_number
        /\ \A i \in 1..Len(cl.data) :
              Accepted(cl.data[i]) =>
                  \E j \in 1..Len(cl.out) :
                      cl.out[j].serial_number = cl.data[i].serial_number

\* Two accepted records with one serial number: the first is kept.
C18_Witness ==
    /\ cl.pc = "cleaned"
    /\ Len(cl.data) = 2
    /\ Accepted(cl.data[1])
    /\ Accepted(cl.data[2])
    /\ cl.data[1].serial_number = cl.data[2].serial_number
    /\ cl.data[1].ministry # cl.data[2].ministry
    /\ cl.kept = <<1>>
    /\ Len(cl.out) = 1

\* t is s without its leading and trailing blanks.
IsTrimOf(t, s) ==
    /\ (t # <<>> => t[1] # Blank /\ t[Len(t)] # Blank)
    /\ \E a \in 0..Len(s) :
          /\ a + Len(t) <= Len(s)
          /\ \A k \in 1..Len(t) : s[a + k] = t[k]
          /\ \A k \in 1..a : s[k] = Blank
          /\ \A k \in (a + Len(t) + 1)..Len(s) : s[k] = Blank

\* u is t with every upper-case letter replaced by its lower-case letter.
IsLowerOf(u, t) ==
    /\ Len(u) = Len(t)
    /\ \A k \in 1..Len(t) : u[k] = (IF t[k] = "A" THEN "a" ELSE t[k])
    /\ \A k \in 1..Len(u) : u[k] # "A"

\* C19: for every record kept, the output ministry is the input ministry trimmed
\* and lower-cased, the output decision_summary is the input summary trimmed with
\* its case kept, and source and serial_number are unchanged.
C19_NormalisedFields ==
    cl.pc \in {"cleaned", "again"} =>
        \A j \in 1..Len(cl.out) :
            LET in == cl.data[cl.kept[j]]
                out == cl.out[j]
            IN  /\ out.source = in.source
                /\ out.serial_number = in.serial_number
                /\ IsTrimOf(out.decision_summary, in.decision_summary)
                /\ \E t \in Texts : IsTrimOf(t, in.ministry) /\ IsLowerOf(out.ministry, t)

\* A ministry with a leading blank and an upper-case letter, a summary with a
\* trailing blank.
C19_Witness ==
    /\ cl.pc = "cleaned"
    /\ Len(cl.out) = 1
    /\ cl.data[1].ministry = <<Blank, "A">>
    /\ cl.data[1].decision_summary = <<"A", Blank>>
    /\ cl.out[1].ministry = <<"a">>
    /\ cl.out[1].decision_summary = <<"A">>

\* ==================================================== get_pdf_urls_from_content
\* One call get_pdf_urls_from_content(session, content_url).  rs is
\*   pc      "call", "returned"
\*   page    the detail page the request would deliver
\*   status  "ok" for a 200 response, "non200" otherwise ("none" before the call)
\*   result  the URLs returned: list(pdf_urls), a set listed in no order
\* An href is a sequence of pieces of text; what the code asks of an href
\* (strip, startswith('http'), '.pdf' in, 'download' in lower()) is asked of
\* its pieces.  A page is
\*   more_container  soup.find('div', class_='more-container') found a div
\*   download_link   the href of more_container.find('a', title="Download PDF
\*                   File", href=True), <<>> when there is none
\*   links           the hrefs of the other <a href> elements, in document order
\*   scripts         for every <script> with a string, the text matched by the
\*                   group of the regular expression, <<>> when it does not match

\* Other <a href> elements on a detail page.
MaxLinks == 2

\* <script> elements on a detail page.
MaxScripts == 1

SiteBase == "https://mocit.gov.np"

Hrefs ==
    { <<"/", "download", "/a", ".pdf">>,
      <<Blank, "/", "download", "/a", ".pdf", Blank>>,
      <<"http", "://x", "/Download", "/b", ".pdf">>,
      <<"/", "files", "/c", ".pdf">>,
      <<"/", "download", "/page">> }

ScriptUrls ==
    { <<"/", "flip", "/s", ".pdf">>,
      <<"http", "://x", "/Download", "/b", ".pdf">>,
      <<>> }

DetailPages ==
    { pg \in [more_container : BOOLEAN,
              download_link : Hrefs \union {<<>>},
              links : UNION {[1..n -> Hrefs] : n \in 0..MaxLinks},
              scripts : UNION {[1..n -> ScriptUrls] : n \in 0..MaxScripts}] :
        ~pg.more_container => pg.download_link = <<>> }

\* '.pdf' in href
HasPdf(href) == \E i \in 1..Len(href) : href[i] = ".pdf"

\* href.lower(), piece by piece.
HrefLower(href) ==
    [i \in 1..Len(href) |->
        IF href[i] = "/Download" THEN "/download"
        ELSE IF href[i] = "Download" THEN "download"
        ELSE href[i]]

\* 'download' in href.lower()
HasDownload(href) ==
    \E i \in 1..Len(href) : HrefLower(href)[i] \in {"download", "/download"}

\* href if href.startswith('http') else f"https://mocit.gov.np{href}"
FullUrl(href) ==
    IF href # <<>> /\ Head(href) = "http" THEN href ELSE <<SiteBase>> \o href

\* The flipbook download link (lines 47-55).
Tier1(page) ==
    IF /\ page.more_container
       /\ page.download_link # <<>>
       /\ HasPdf(Strip(page.download_link))
    THEN {FullUrl(Strip(page.download_link))}
    ELSE {}

\* soup.find_all('a', href=True): the download link is one of the <a> elements.
AllLinks(page) ==
    (IF page.download_link # <<>> THEN <<page.download_link>> ELSE <<>>) \o page.links

\* Other <a> tags whose href holds '.pdf' and 'download' (lines 58-62).
Tier2(page) ==
    {FullUrl(Strip(AllLinks(page)[i])) :
        i \in {j \in 1..Len(AllLinks(page)) :
                  /\ HasPdf(Strip(AllLinks(page)[j]))
                  /\ HasDownload(Strip(AllLinks(page)[j]))}}

\* var pdf = '...' in a script (lines 65-71).
Tier3(page) ==
    {FullUrl(page.scripts[i]) :
        i \in {j \in 1..Len(page.scripts) : page.scripts[j] # <<>>}}

\* Every tier added to the set, the first included.
PdfUrlsOfAllTiers(page, status) ==
    IF status # "ok" THEN {} ELSE Tier1(page) \union Tier2(page) \union Tier3(page)

\* The set get_pdf_urls_from_content returns for the page.
PdfUrlsOnPage(page, status) ==
    IF status # "ok" THEN {}
    ELSE IF Tier1(page) # {} THEN Tier1(page)
    ELSE Tier2(page) \union Tier3(page)

InitResolve ==
    /\ listing = [p \in Pages |-> <<>>]
    /\ PipelineInit
    /\ Aux1Idle
    /\ ck = [pc |-> "off"]
    /\ ln = [pc |-> "off"]
    /\ mg = [pc |-> "off"]
    /\ ga = [pc |-> "off"]
    /\ fl = [pc |-> "off"]
    /\ \E page \in DetailPages :
         rs = [pc |-> "call", page |-> page, status |-> "none", result |-> {}]

RsResolve ==
    /\ rs.pc = "call"
    /\ UNCHANGED <<pipeline, aux1, ck, ln, mg, ga, fl>>
    /\ \E status \in {"ok", "non200"} :
         rs' = [rs EXCEPT !.pc = "returned", !.status = status,
                          !.result = PdfUrlsOnPage(rs.page, status)]

NextResolve ==
    \/ RsResolve

SpecResolve == InitResolve /\ [][NextResolve]_vars

\* href without the blanks around it.
Trimmed(href) == SelectSeq(href, LAMBDA piece : piece # Blank)

\* url is href made absolute against the site base.
IsAbsoluteOf(url, href) ==
    \/ Trimmed(href)[1] = "http" /\ url = Trimmed(href)
    \/ Trimmed(href)[1] # "http" /\ url = <<"https://mocit.gov.np">> \o Trimmed(href)

\* The page offers the primary download link: the more-container holds a
\* "Download PDF File" link to a .pdf.
OffersPrimary(page) ==
    /\ page.more_container
    /\ \E i \in 1..Len(page.download_link) : page.download_link[i] = ".pdf"

\* C22: when the page offers the primary download link, the result is exactly
\* that link's URL made absolute, whatever other links and scripts the page has.
C22_PrimaryLinkOnly ==
    (rs.pc = "returned" /\ rs.status = "ok" /\ OffersPrimary(rs.page)) =>
        /\ Cardinality(rs.result) = 1
        /\ \A url \in rs.result : IsAbsoluteOf(url, rs.page.download_link)

\* A relative primary link on a page that also has a download link to another
\* PDF and a script-embedded URL.
C22_Witness ==
    /\ rs.pc = "returned"
    /\ rs.status = "ok"
    /\ rs.page.download_link = <<"/", "download", "/a", ".pdf">>
    /\ rs.page.links = << <<"http", "://x", "/Download", "/b", ".pdf">> >>
    /\ rs.page.scripts = << <<"/", "flip", "/s", ".pdf">> >>
    /\ rs.result = { <<"https://mocit.gov.np", "/", "download", "/a", ".pdf">> }

\* Some <a> element of the page is a download link to a PDF.
OffersTier2(page) ==
    \E i \in 1..Len(page.links) :
        /\ \E k \in 1..Len(page.links[i]) : page.links[i][k] = ".pdf"
        /\ \E k \in 1..Len(page.links[i]) :
              page.links[i][k] \in {"download", "/download", "Download", "/Download"}

\* C23: when the page offers no primary link and some other download link to a
\* PDF, every URL of the result is the URL of such an <a> link: no URL that
\* only a script holds is added.
C23_FirstMatchWins ==
    (rs.pc = "returned" /\ rs.status = "ok" /\ ~OffersPrimary(rs.page)
        /\ OffersTier2(rs.page)) =>
        \A url \in rs.result :
            \E i \in 1..Len(rs.page.links) : IsAbsoluteOf(url, rs.page.links[i])

\* ============================================================ checkpoint helpers
\* Calls of load_progress, save_progress, load_processed_pdfs and
\* save_processed_pdf in any order, on the text of the two files.  ck is
\*   pc             "run"
\*   progress_txt   progress.txt: <<>> when absent, <<text>> when it exists
\*   processed_txt  processed_pdfs.txt: exists, and its lines (each a sequence
\*                  of pieces of text, the last one the newline)
\*   calls          the calls made so far
\*   op             the last call: "none", "save_progress", "load_progress",
\*                  "save_processed_pdf", "load_processed_pdfs"
\*   returned_page  what the last call returned, for load_progress
\*   returned_ids   what the last call returned, for load_processed_pdfs
\*   saved_pages    the arguments of save_progress so far, in order
\*   saved_ids      the arguments of save_processed_pdf so far
\*   before         the text of the two files before the last call

\* Calls of the helpers in one behaviour.
MaxCalls == 4

Newline == "\n"

\* The page numbers scrape_all_pages can pass to save_progress.
PageNumbers == 0..(MaxPage + 1)

\* A save_progress that writes the number of the next page.
ProgressTextOfNext(n) == ToStr(n + 1)

\* str(page_num)
ProgressText(n) == ToStr(n)

\* text.strip() for the white space " " and newline.
RECURSIVE StripWs(_)
StripWs(text) ==
    IF text # <<>> /\ Head(text) \in {Blank, Newline} THEN StripWs(Tail(text))
    ELSE IF text # <<>> /\ text[Len(text)] \in {Blank, Newline}
    THEN StripWs(SubSeq(text, 1, Len(text) - 1))
    ELSE text

\* int(text): the number whose decimal notation the text is.
IntOf(text) == CHOOSE n \in (0 - 1)..(MaxPage + 2) : ToStr(n) = text

\* The pieces of a line put together.
RECURSIVE Joined(_)
Joined(text) == IF text = <<>> THEN "" ELSE Head(text) \o Joined(Tail(text))

\* load_progress on the text of progress.txt.
ReadProgress(progress_txt) ==
    IF progress_txt # <<>> THEN IntOf(Joined(StripWs(<<progress_txt[1]>>))) ELSE 1

\* load_processed_pdfs on the text of processed_pdfs.txt.
ReadProcessed(processed_txt) ==
    IF processed_txt.exists
    THEN {Joined(StripWs(processed_txt.lines[i])) : i \in 1..Len(processed_txt.lines)}
    ELSE {}

\* source_id + '\n'
ProcessedLine(source_id) == <<source_id, Newline>>

InitStore ==
    /\ listing = [p \in Pages |-> <<>>]
    /\ PipelineInit
    /\ Aux1Idle
    /\ rs = [pc |-> "off"]
    /\ ln = [pc |-> "off"]
    /\ mg = [pc |-> "off"]
    /\ ga = [pc |-> "off"]
    /\ fl = [pc |-> "off"]
    /\ ck = [pc |-> "run", progress_txt |-> <<>>,
             processed_txt |-> [exists |-> FALSE, lines |-> <<>>],
             calls |-> 0, op |-> "none", returned_page |-> 0, returned_ids |-> {},
             saved_pages |-> <<>>, saved_ids |-> {},
             before |-> [progress_txt |-> <<>>,
                         processed_txt |-> [exists |-> FALSE, lines |-> <<>>]]]

\* What every call does to the bookkeeping.
CkCalled(op) ==
    [ck EXCEPT !.calls = @ + 1, !.op = op, !.returned_page = 0, !.returned_ids = {},
               !.before = [progress_txt |-> ck.progress_txt,
                           processed_txt |-> ck.processed_txt]]

CkSaveProgress ==
    /\ ck.pc = "run"
    /\ ck.calls < MaxCalls
    /\ UNCHANGED <<pipeline, aux1, rs, ln, mg, ga, fl>>
    /\ \E n \in PageNumbers :
         ck' = [CkCalled("save_progress") EXCEPT
                   !.progress_txt = <<ProgressText(n)>>,
                   !.saved_pages = Append(@, n)]

CkLoadProgress ==
    /\ ck.pc = "run"
    /\ ck.calls < MaxCalls
    /\ UNCHANGED <<pipeline, aux1, rs, ln, mg, ga, fl>>
    /\ ck' = [CkCalled("load_progress") EXCEPT
                 !.returned_page = ReadProgress(ck.progress_txt)]

CkSaveProcessed ==
    /\ ck.pc = "run"
    /\ ck.calls < MaxCalls
    /\ UNCHANGED <<pipeline, aux1, rs, ln, mg, ga, fl>>
    /\ \E source_id \in ExSourceIds :
         ck' = [CkCalled("save_processed_pdf") EXCEPT
                   !.processed_txt = [exists |-> TRUE,
                                      lines |-> Append(@.lines, ProcessedLine(source_id))],
                   !.saved_ids = @ \union {source_id}]

CkLoadProcessed ==
    /\ ck.pc = "run"
    /\ ck.calls < MaxCalls
    /\ UNCHANGED <<pipeline, aux1, rs, ln, mg, ga, fl>>
    /\ ck' = [CkCalled("load_processed_pdfs") EXCEPT
                 !.returned_ids = ReadProcessed(ck.processed_txt)]

NextStore ==
    \/ CkSaveProgress
    \/ CkLoadProgress
    \/ CkSaveProcessed
    \/ CkLoadProcessed

SpecStore == InitStore /\ [][NextStore]_vars

\* C24: load_progress returns the page number of the most recent save_progress,
\* or 1 when none was made; load_processed_pdfs returns exactly the ids passed
\* to save_processed_pdf so far; a call about one file leaves the other file as
\* it was, and a load leaves both.
C24_StoreReflectsSaves ==
    ck.pc = "run" =>
        /\ ck.op = "load_progress" =>
              ck.returned_page = (IF ck.saved_pages = <<>> THEN 1
                                  ELSE ck.saved_pages[Len(ck.saved_pages)])
        /\ ck.op = "load_processed_pdfs" => ck.returned_ids = ck.saved_ids
        /\ ck.op \in {"save_progress", "load_progress", "load_processed_pdfs"} =>
              ck.processed_txt = ck.before.processed_txt
        /\ ck.op \in {"save_processed_pdf", "load_progress", "load_processed_pdfs"} =>
              ck.progress_txt = ck.before.progress_txt

\* Both saves made (a second save_progress after the first), then a load of the
\* ids.
C24_Witness ==
    /\ ck.pc = "run"
    /\ ck.saved_pages = <<2, 1>>
    /\ ck.progress_txt = <<"1">>
    /\ ck.op = "load_processed_pdfs"
    /\ ck.returned_ids = {"page1_item1"}

\* ======================================================== start of the program
\* One start of the pipeline and the network activity that follows.  ln is
\*   entry     "script": the module is run as __main__ (lines 143-147);
\*             "main": main() is awaited by a caller that imported the module
\*   key       GEMINI_API_KEY is in the environment
\*   cards     the items listing page 1 holds (page 2 holds none)
\*   pc        "start", "listing", "detail", "download", "extract", "returned",
\*             "exited" (the guard printed its message), "raised"
\*   page      the listing page to request next
\*   todo      detail pages, then documents, still to handle
\*   docs      documents resolved so far
\*   files     the downloads succeeded
\*   requests  the requests made so far, by kind
InitLaunch ==
    /\ listing = [p \in Pages |-> <<>>]
    /\ PipelineInit
    /\ Aux1Idle
    /\ rs = [pc |-> "off"]
    /\ ck = [pc |-> "off"]
    /\ mg = [pc |-> "off"]
    /\ ga = [pc |-> "off"]
    /\ fl = [pc |-> "off"]
    /\ \E entry \in {"script", "main"}, key \in BOOLEAN, cards \in 0..MaxItems :
         ln = [entry |-> entry, key |-> key, cards |-> cards, pc |-> "start",
               page |-> 1, todo |-> 0, docs |-> 0, files |-> TRUE,
               requests |-> [listing |-> 0, detail |-> 0, download |-> 0, extract |-> 0]]

\* if "GEMINI_API_KEY" not in os.environ: print(...) else: asyncio.run(main());
\* a caller of main() meets no such test.
LnStart ==
    /\ ln.pc = "start"
    /\ UNCHANGED <<pipeline, aux1, rs, ck, mg, ga, fl>>
    /\ ln' = [ln EXCEPT !.pc = IF ln.entry = "script" /\ ~ln.key
                                THEN "exited" ELSE "listing"]

\* scrape_all_pages: the request of a listing page.
LnListing ==
    /\ ln.pc = "listing"
    /\ UNCHANGED <<pipeline, aux1, rs, ck, mg, ga, fl>>
    /\ LET found == IF ln.page = 1 THEN ln.cards ELSE 0
       IN  ln' = [ln EXCEPT !.requests.listing = @ + 1,
                            !.page = @ + 1,
                            !.todo = IF found > 0 THEN found ELSE ln.docs,
                            !.pc = IF found > 0 THEN "detail" ELSE "download"]

\* scrape_all_pages: the request of one detail page, which resolves to a
\* document or to none.
LnDetail ==
    /\ ln.pc = "detail"
    /\ UNCHANGED <<pipeline, aux1, rs, ck, mg, ga, fl>>
    /\ \E resolved \in BOOLEAN :
         ln' = [ln EXCEPT !.requests.detail = @ + 1,
                          !.docs = IF resolved THEN @ + 1 ELSE @,
                          !.todo = @ - 1,
                          !.pc = IF ln.todo = 1 THEN "listing" ELSE "detail"]

\* download_all_pdfs: one request at least for every document.
LnDownload ==
    /\ ln.pc = "download"
    /\ UNCHANGED <<pipeline, aux1, rs, ck, mg, ga, fl>>
    /\ \E files \in BOOLEAN :
         ln' = [ln EXCEPT !.requests.download = @ + ln.docs,
                          !.files = files,
                          !.pc = "extract"]

\* process_all_pdfs: one document.  Without the key genai.Client() raises inside
\* the try of every attempt and process_pdf returns [] without a request; the
\* upload of a file that was not downloaded raises in the same way, and
\* os.remove(None) then raises out of main().
LnExtract ==
    /\ ln.pc = "extract"
    /\ UNCHANGED <<pipeline, aux1, rs, ck, mg, ga, fl>>
    /\ IF ln.todo = 0
       THEN ln' = [ln EXCEPT !.pc = "returned"]
       ELSE ln' = [ln EXCEPT !.requests.extract = IF ln.key /\ ln.files THEN @ + 1 ELSE @,
                             !.todo = @ - 1,
                             !.pc = IF ln.files THEN "extract" ELSE "raised"]

NextLaunch ==
    \/ LnStart
    \/ LnListing
    \/ LnDetail
    \/ LnDownload
    \/ LnExtract

SpecLaunch == InitLaunch /\ [][NextLaunch]_vars

\* C25: without GEMINI_API_KEY no listing, detail, download or extraction
\* request is ever made, and main() does not return as if it had succeeded.
C25_NoKeyNoNetwork ==
    (ln.pc # "off" /\ ~ln.key) =>
        /\ ln.requests = [listing |-> 0, detail |-> 0, download |-> 0, extract |-> 0]
        /\ ln.pc # "returned"

\* ================================================== from process_pdf to the file
\* The way of one document's records from process_pdf to all_decisions.json
\* (process_all_pdfs lines 97-98, main lines 126-137).  mg is
\*   pc             "extract", "extended", "written"
\*   source_id      the id the document is processed under
\*   raw            the array the extraction service returns
\*   all_decisions  the list process_all_pdfs returns
\*   output         the array in all_decisions.json

\* A record written by an earlier run.
EarlierRecord ==
    [source |-> "page1_item1", serial_number |-> "page1_item1_9",
     ministry |-> <<"a">>, decision_summary |-> <<"A">>]

InitMerge ==
    /\ listing = [p \in Pages |-> <<>>]
    /\ PipelineInit
    /\ Aux1Idle
    /\ rs = [pc |-> "off"]
    /\ ck = [pc |-> "off"]
    /\ ln = [pc |-> "off"]
    /\ ga = [pc |-> "off"]
    /\ fl = [pc |-> "off"]
    /\ \E id \in ExSourceIds, raw \in RawArrays, output \in {<<>>, <<EarlierRecord>>} :
         mg = [pc |-> "extract", source_id |-> id, raw |-> raw,
               all_decisions |-> <<>>, output |-> output]

\* decisions = await process_pdf(filename, source_id); all_decisions.extend(decisions)
MgExtend ==
    /\ mg.pc = "extract"
    /\ UNCHANGED <<pipeline, aux1, rs, ck, ln, ga, fl>>
    /\ \E extracted \in BOOLEAN :
         LET decisions == IF extracted THEN BuildRecords(mg.raw, mg.source_id) ELSE <<>>
         IN  mg' = [mg EXCEPT !.all_decisions = @ \o decisions, !.pc = "extended"]

\* if all_decisions: existing_data.extend(all_decisions), the file is rewritten.
MgWrite ==
    /\ mg.pc = "extended"
    /\ UNCHANGED <<pipeline, aux1, rs, ck, ln, ga, fl>>
    /\ mg' = [mg EXCEPT !.output = IF mg.all_decisions # <<>>
                                   THEN MergedOutput(@, mg.all_decisions)
                                   ELSE @,
                        !.pc = "written"]

NextMerge ==
    \/ MgExtend
    \/ MgWrite

SpecMerge == InitMerge /\ [][NextMerge]_vars

\* C27: every record of all_decisions.json is as the cleaner leaves a record:
\* ministry and decision_summary not empty, both without blanks around them,
\* the ministry in lower case.
C27_OnlyCleanedRecordsWritten ==
    mg.pc # "off" =>
        \A i \in 1..Len(mg.output) :
            /\ mg.output[i].ministry # <<>>
            /\ mg.output[i].decision_summary # <<>>
            /\ IsTrimOf(mg.output[i].ministry, mg.output[i].ministry)
            /\ IsTrimOf(mg.output[i].decision_summary, mg.output[i].decision_summary)
            /\ IsLowerOf(mg.output[i].ministry, mg.output[i].ministry)

\* ====================================================== the gather of downloads
\* The tasks of one run from the return of scrape_all_pages to the final write:
\* the main task and the download tasks asyncio.gather runs.  ga is
\*   pc                "walk" (scrape_all_pages is running), "tasks" (the walk
\*                     has returned), "running" (gather awaits), "returned"
\*                     (download_all_pdfs has returned, process_all_pdfs runs),
\*                     "rewrite" (all_decisions.json is being rewritten), "done",
\*                     "raised"
\*   data              all_pdf_data as the walk returns it
\*   processed         processed_pdfs
\*   tasks             the download tasks, in the order of their creation
\*   inflight          the tasks started and not yet finished (positions in tasks)
\*   results           for every task, the value download_pdf returned
\*                     ("pending" before)
\*   downloaded_files  what download_all_pdfs returns
\*   extracted         the calls of process_pdf made so far
\*   writers           the tasks that are inside save_progress,
\*                     save_processed_pdf or the rewrite of all_decisions.json
\*                     and suspended there (the main task is MainTask, a
\*                     download task its position in tasks)
\*   rewritten         all_decisions.json has been rewritten

\* The task asyncio.run(main()) runs.
MainTask == 0

\* What scrape_all_pages can hand over for one listing page.
GatherData == {PageEntries(1, items, [k \in 1..Len(items) |-> "ok"]) : items \in ItemSeqs}

InitGather ==
    /\ listing = [p \in Pages |-> <<>>]
    /\ PipelineInit
    /\ Aux1Idle
    /\ rs = [pc |-> "off"]
    /\ ck = [pc |-> "off"]
    /\ ln = [pc |-> "off"]
    /\ mg = [pc |-> "off"]
    /\ fl = [pc |-> "off"]
    /\ \E data \in GatherData, processed \in SUBSET {SourceId(1, k) : k \in 1..MaxItems} :
         ga = [pc |-> "walk", data |-> data, processed |-> processed,
               tasks |-> <<>>, inflight |-> {}, results |-> <<>>,
               downloaded_files |-> <<>>, extracted |-> 0, writers |-> {},
               rewritten |-> FALSE]

\* scrape_all_pages returns (save_progress, which holds no await, has run and
\* returned within this step) and download_all_pdfs builds its list of tasks.
GaWalk ==
    /\ ga.pc = "walk"
    /\ UNCHANGED <<pipeline, aux1, rs, ck, ln, mg, fl>>
    /\ ga' = [ga EXCEPT !.pc = "tasks", !.tasks = Tasks(ga.data, ga.processed)]

\* results = await asyncio.gather(*tasks, return_exceptions=True): every
\* coroutine of the list is scheduled at once, none waits for another.
GaGather ==
    /\ ga.pc = "tasks"
    /\ UNCHANGED <<pipeline, aux1, rs, ck, ln, mg, fl>>
    /\ ga' = [ga EXCEPT !.pc = "running",
                        !.inflight = 1..Len(ga.tasks),
                        !.results = [i \in 1..Len(ga.tasks) |-> "pending"]]

\* A download task that calls save_processed_pdf and is suspended in it.
DownloadEntersWrite(writers, i) == writers \union {i}

\* download_pdf writes its own destination and none of the checkpoint files.
WritersAfterDownload(writers, i) == writers

\* One download_pdf returns: its filename, or None after its last attempt.
GaFinish ==
    /\ ga.pc = "running"
    /\ UNCHANGED <<pipeline, aux1, rs, ck, ln, mg, fl>>
    /\ \E i \in ga.inflight, ok \in BOOLEAN :
         ga' = [ga EXCEPT !.inflight = @ \ {i},
                          !.results[i] = IF ok THEN ga.tasks[i].filename ELSE None,
                          !.writers = WritersAfterDownload(@, i)]

\* A gather that returns as soon as it is awaited, whatever is still running.
GatherReturnsAtOnce(inflight) == TRUE

\* gather returns once every task has finished.
GatherDone(inflight) == inflight = {}

\* The return of gather and the pairing of results with source ids
\* (lines 83-89); all_pdf_data[i] raises IndexError when there are more
\* results than entries.
GaReturn ==
    /\ ga.pc = "running"
    /\ GatherDone(ga.inflight)
    /\ UNCHANGED <<pipeline, aux1, rs, ck, ln, mg, fl>>
    /\ IF Len(ga.tasks) > Len(ga.data)
       THEN ga' = [ga EXCEPT !.pc = "raised"]
       ELSE ga' = [ga EXCEPT
                     !.pc = "returned",
                     !.downloaded_files =
                         [i \in 1..Len(ga.tasks) |->
                             [source_id |-> ResultLabel(ga.data, i),
                              filename |-> ga.results[i]]]]

\* One iteration of process_all_pdfs: process_pdf, save_processed_pdf (no
\* await inside: it has returned within this step), os.remove, which raises
\* for None.
GaExtract ==
    /\ ga.pc = "returned"
    /\ ga.extracted < Len(ga.downloaded_files)
    /\ UNCHANGED <<pipeline, aux1, rs, ck, ln, mg, fl>>
    /\ ga' = [ga EXCEPT
                !.extracted = @ + 1,
                !.pc = IF ga.downloaded_files[ga.extracted + 1].filename = None
                       THEN "raised" ELSE @]

\* process_all_pdfs has returned; with records to write, main opens
\* all_decisions.json and awaits the write.
GaBeginRewrite ==
    /\ ga.pc = "returned"
    /\ ga.extracted = Len(ga.downloaded_files)
    /\ UNCHANGED <<pipeline, aux1, rs, ck, ln, mg, fl>>
    /\ \E any \in BOOLEAN :
         ga' = IF any
               THEN [ga EXCEPT !.pc = "rewrite", !.writers = @ \union {MainTask}]
               ELSE [ga EXCEPT !.pc = "done"]

\* The write has completed and the file is closed.
GaEndRewrite ==
    /\ ga.pc = "rewrite"
    /\ UNCHANGED <<pipeline, aux1, rs, ck, ln, mg, fl>>
    /\ ga' = [ga EXCEPT !.pc = "done", !.writers = @ \ {MainTask}, !.rewritten = TRUE]

NextGather ==
    \/ GaWalk
    \/ GaGather
    \/ GaFinish
    \/ GaReturn
    \/ GaExtract
    \/ GaBeginRewrite
    \/ GaEndRewrite

SpecGather == InitGather /\ [][NextGather]_vars

\* C30: the downloads in flight stay below a worker bound that does not grow
\* with the list: they are fewer than the documents of the longest list.
C30_InFlightBounded ==
    ga.pc # "off" => Cardinality(ga.inflight) < MaxItems * MaxUrls

\* C31: no two downloads in flight at the same time write to the same
\* destination file.
C31_DestinationsDisjoint ==
    ga.pc # "off" =>
        \A i, j \in ga.inflight :
            i # j => ga.tasks[i].filename # ga.tasks[j].filename

\* C32: no download is started while the walk is running, and no call of
\* process_pdf is made before every download task has finished, with its file
\* or with None.
C32_PhasesAreBarriers ==
    ga.pc # "off" =>
        /\ ga.pc = "walk" => (ga.inflight = {} /\ ga.results = <<>>)
        /\ ga.extracted > 0 =>
              /\ ga.inflight = {}
              /\ \A i \in 1..Len(ga.results) : ga.results[i] # "pending"

\* Two downloads, one succeeded and one given up, and a first extraction.
C32_Witness ==
    /\ ga.extracted = 1
    /\ Len(ga.tasks) = 2
    /\ ga.results = <<"temp_page1_item1.pdf", None>>

\* C36: at no time is more than one task inside save_progress,
\* save_processed_pdf or the rewrite of all_decisions.json.
C36_SingleWriter ==
    ga.pc # "off" => Cardinality(ga.writers) <= 1

\* The main task is inside the rewrite after two downloads ran in parallel.
C36_Witness ==
    /\ ga.pc = "rewrite"
    /\ ga.writers = {MainTask}
    /\ Len(ga.tasks) = 2
    /\ ga.extracted = 2

\* ===================================================== the write of a file
\* One write of progress.txt (save_progress) or of all_decisions.json (the
\* final write of main), step by step, and a kill of the process between two
\* steps.  The text of a file is a sequence of pieces: the digits of the page
\* number for progress.txt, one piece per record (named by its serial number)
\* for all_decisions.json.  fl is
\*   pc      "start", "open", "closed", "crashed"
\*   name    the file written
\*   old     the file before the write: exists, and its text
\*   new     the text to write
\*   file    the file as it is on disk now

Absent == [exists |-> FALSE, text |-> <<>>]

Holding(text) == [exists |-> TRUE, text |-> text]

\* The text of json.dumps(existing_data), one piece per record.
JsonText(records) == [i \in 1..Len(records) |-> records[i].serial_number]

\* The writes of progress.txt: any page number over no file or an earlier number.
ProgressWrites ==
    {[name |-> "progress.txt", old |-> old, new |-> <<ProgressText(n)>>] :
        old \in {Absent} \union {Holding(<<ProgressText(m)>>) : m \in PageNumbers},
        n \in PageNumbers}

\* The writes of all_decisions.json: the records of one document appended to
\* no file or to an earlier array.
OutputWrites ==
    {[name |-> "all_decisions.json",
      old |-> IF existing = <<>> THEN Absent ELSE Holding(JsonText(existing)),
      new |-> JsonText(MergedOutput(existing, BuildRecords(raw, id)))] :
        existing \in {<<>>, <<EarlierRecord>>},
        raw \in RawArrays \ {<<>>},
        id \in ExSourceIds}

InitFlush ==
    /\ listing = [p \in Pages |-> <<>>]
    /\ PipelineInit
    /\ Aux1Idle
    /\ rs = [pc |-> "off"]
    /\ ck = [pc |-> "off"]
    /\ ln = [pc |-> "off"]
    /\ mg = [pc |-> "off"]
    /\ ga = [pc |-> "off"]
    /\ \E w \in ProgressWrites \union OutputWrites :
         fl = [pc |-> "start", name |-> w.name, old |-> w.old, new |-> w.new,
               file |-> w.old]

\* open(name, 'w'): the file is created or truncated.
FlOpen ==
    /\ fl.pc = "start"
    /\ UNCHANGED <<pipeline, aux1, rs, ck, ln, mg, ga>>
    /\ fl' = [fl EXCEPT !.pc = "open", !.file = Holding(<<>>)]

\* f.write(text): the next piece of the text reaches the file.
FlWrite ==
    /\ fl.pc = "open"
    /\ Len(fl.file.text) < Len(fl.new)
    /\ UNCHANGED <<pipeline, aux1, rs, ck, ln, mg, ga>>
    /\ fl' = [fl EXCEPT !.file.text = Append(@, fl.new[Len(@) + 1])]

\* The end of the with block: everything is written, the file is closed.
FlClose ==
    /\ fl.pc = "open"
    /\ fl.file.text = fl.new
    /\ UNCHANGED <<pipeline, aux1, rs, ck, ln, mg, ga>>
    /\ fl' = [fl EXCEPT !.pc = "closed"]

\* The process is killed: the file stays as it is.
FlCrash ==
    /\ fl.pc \in {"start", "open"}
    /\ UNCHANGED <<pipeline, aux1, rs, ck, ln, mg, ga>>
    /\ fl' = [fl EXCEPT !.pc = "crashed"]

NextFlush ==
    \/ FlOpen
    \/ FlWrite
    \/ FlClose
    \/ FlCrash

SpecFlush == InitFlush /\ [][NextFlush]_vars

\* C34: after a kill during the write, the file holds its complete previous
\* content (or is absent as before) or its complete new content.
C34_WriteIsAtomic ==
    fl.pc = "crashed" =>
        \/ fl.file = fl.old
        \/ fl.file = [exists |-> TRUE, text |-> fl.new]
====
